---- MODULE Spec2Model ----
(***************************************************************************)
(* State-machine model of src/src/components/SolarSystem.jsx: the         *)
(* simulated clock (timeRef), the React state of SolarSystem (isPaused,   *)
(* timeSpeed, cameraMode), the per-frame callbacks of EarthSystem and     *)
(* Scene, the click handlers of UIOverlay and the requestAnimationFrame   *)
(* loop that refreshes the day/year readout.                              *)
(*                                                                         *)
(* Units (all quantities are integers):                                    *)
(*   time        thousandths of a simulated day                            *)
(*   timeSpeed   hundredths of a simulated day per second                  *)
(*   delta       tenths of a second      (time += delta * speed is exact)  *)
(*   radii       tenths of a scene unit                                    *)
(*   camera      hundredths of a scene unit                                *)
(*   angles      rational numbers of full turns, <<num, den>> in lowest    *)
(*               terms (angle in radians = turns * 2 * pi)                 *)
(* Arithmetic on the clock is exact; IEEE rounding of the doubles the      *)
(* program uses is outside the model.                                      *)
(***************************************************************************)
EXTENDS Integers, Sequences, FiniteSets, TLC

VARIABLES
    time,        \* timeRef.current
    isPaused,    \* useState(false)     in SolarSystem
    timeSpeed,   \* useState(1)         in SolarSystem
    cameraMode,  \* useState('overview') in SolarSystem
    target,      \* useState(null) in Scene, as seen by the frame callback (<<>>: null)
    pose,        \* position / rotation fields of the Earth, Moon, satellite nodes
    timeRead,    \* `const time` read by the last kinematics update (-1: none yet)
    ctlTarget,   \* controlsRef.current.target
    camPos,      \* state.camera.position
    readout,     \* innerText of the day and year spans
    mounted,     \* the view is mounted (dayRef / yearRef are attached)
    requestId,   \* `let requestId` of the overlay effect (0: unset)
    rafPending,  \* ids of the overlay's animation-frame requests not yet run or cancelled
    nextRafId,   \* the id the next requestAnimationFrame call returns
    frames,      \* number of render-loop ticks so far
    lastOp       \* the callback that ran last

vars == <<time, isPaused, timeSpeed, cameraMode, target, pose, timeRead,
          ctlTarget, camPos, readout, mounted, requestId, rafPending,
          nextRafId, frames, lastOp>>

-----------------------------------------------------------------------------
(* Bounds of the exploration *)

MaxFrames == 2
MaxRaf == 2
ShortDelta == 1
LongDelta == 3650
OrbitStride == 137
MaxOrbitSamples == 30
MaxCameraFrames == 6

Deltas == {ShortDelta, LongDelta}

-----------------------------------------------------------------------------
(* Program constants *)

EARTH_YEAR == 365250
EARTH_DAY == 1000
MOON_ORBIT == 27300
SATELLITE_ORBIT == 500

earthOrbitRadius == 250
moonOrbitRadius == 25
satelliteOrbitRadius == 13

SliderMin == 10
\* a much wider slider
SliderMaxWide == 50 * 200
SliderMax == 200
SliderStep == 10
InitialSpeed == 100
FocusSpeed == 10

DaysPerYear == 365
\* one simulated day in clock units
TimeUnit == EARTH_DAY

\* every value the range input can report: min + k*step, not above max
SliderValues == { SliderMin + k * SliderStep : k \in 0..((SliderMax - SliderMin) \div SliderStep) }

\* the slider positions the exploration moves the slider to
SliderSamples == {SliderMin, SliderMax}

-----------------------------------------------------------------------------
(* Rational angles and exact trigonometric values *)

RECURSIVE GCD(_, _)
GCD(a, b) == IF b = 0 THEN a ELSE GCD(b, a % b)

Abs(n) == IF n < 0 THEN -n ELSE n

\* n/d in lowest terms, d > 0
Reduce(n, d) == LET g == GCD(Abs(n), d) IN <<n \div g, d \div g>>

\* the angle minus its whole turns, in [0, 1)
Frac(a) == Reduce(a[1] % a[2], a[2])

\* A real number sign * amp * cos(2*pi*c) with c in [0, 1/4): cos is
\* injective and positive there, so for one amp two values are equal exactly
\* when their records are equal.  Zero has the single form below.
Zero == [sign |-> 0, amp |-> <<0, "1">>, c |-> <<0, 1>>]

Exact(sign, amp, c) == IF sign = 0 THEN Zero ELSE [sign |-> sign, amp |-> amp, c |-> c]

\* amp * Math.cos(angle), angle in turns
CosOf(angle, amp) ==
    LET q  == Frac(angle)
        f  == IF 2 * q[1] > q[2] THEN Reduce(q[2] - q[1], q[2]) ELSE q   \* cos(-x) = cos(x)
    IN  IF 4 * f[1] = f[2] THEN Zero
        ELSE IF 4 * f[1] < f[2] THEN Exact(1, amp, f)
        ELSE Exact(-1, amp, Reduce(f[2] - 2 * f[1], 2 * f[2]))          \* cos(x) = -cos(pi - x)

\* amp * Math.sin(angle) = amp * cos(angle - quarter turn)
SinOf(angle, amp) ==
    LET q == Frac(angle)
    IN  CosOf(Reduce(4 * q[1] + 3 * q[2], 4 * q[2]), amp)

-----------------------------------------------------------------------------
(* EarthSystem: the kinematics update *)

\* the factor 2 dropped: (time / period) * Math.PI
AngleHalfTurn(t, period) == Reduce(t, 2 * period)

\* (time / period) * Math.PI * 2
Angle(t, period) == Reduce(t, period)

\* -satAngle + Math.PI / 2
SatFacing(satAngle) == Reduce(satAngle[2] - 4 * satAngle[1], 4 * satAngle[2])

\* the values computed from the clock value t for each body
BodyTransforms(t) ==
    LET earthAngle == Angle(t, EARTH_YEAR)
        moonAngle  == Angle(t, MOON_ORBIT)
        satAngle   == Angle(t, SATELLITE_ORBIT)
    IN  [ earth     |-> [ x |-> CosOf(earthAngle, <<earthOrbitRadius, "1">>),
                          y |-> Zero,
                          z |-> SinOf(earthAngle, <<earthOrbitRadius, "1">>) ],
          earthSpin |-> Angle(t, EARTH_DAY),
          moon      |-> [ x |-> CosOf(moonAngle, <<moonOrbitRadius, "1">>),
                          y |-> Zero,
                          z |-> SinOf(moonAngle, <<moonOrbitRadius, "1">>) ],
          sat       |-> [ x |-> CosOf(satAngle, <<satelliteOrbitRadius, "1">>),
                          y |-> SinOf(satAngle, <<satelliteOrbitRadius, "sinInc">>),
                          z |-> SinOf(satAngle, <<satelliteOrbitRadius, "cosInc">>) ],
          satFacing |-> SatFacing(satAngle) ]

\* a stale read: the update uses the clock value of the previous frame
KinematicsStale(t) == IF timeRead < 0 THEN BodyTransforms(t) ELSE BodyTransforms(timeRead)

\* const time = timeRef.current; ... : what the frame callback of EarthSystem
\* writes into the nodes when it reads the clock value t
Kinematics(t) == BodyTransforms(t)

\* position (0,0,0) and rotation 0 of freshly created scene nodes
Origin == [x |-> Zero, y |-> Zero, z |-> Zero]

DefaultPose ==
    [ earth |-> Origin, earthSpin |-> <<0, 1>>, moon |-> Origin,
      sat |-> Origin, satFacing |-> <<0, 1>> ]

-----------------------------------------------------------------------------
(* Fixed-point vectors for the camera (hundredths of a scene unit) *)

EaseFactor == 5
FocusDistance == 1500
OverviewDistance == 6000

\* fixed-point value of sign * amp * cos(2*pi*c): the angle is cut to whole
\* degrees and the cosine taken by Bhaskara's rational approximation
Numeric(v) ==
    LET deg == (v.c[1] * 360) \div v.c[2]
    IN  v.sign * ((v.amp[1] * 10 * (32400 - 4 * deg * deg)) \div (32400 + deg * deg))

\* earthOrbitRef.current.getWorldPosition(earthWorldPos): the orbit group's
\* parents carry no transform, so the world position is the position
WorldPosition(p) == [x |-> Numeric(p.x), y |-> Numeric(p.y), z |-> Numeric(p.z)]

\* n / d rounded to the nearest integer, d > 0
RoundDiv(n, d) == (2 * n + d) \div (2 * d)

\* the goal taken at once, no easing
LerpSnap(a, b) == b

\* THREE.MathUtils.lerp(a, b, 0.05)
Lerp(a, b) == a + RoundDiv((b - a) * EaseFactor, 100)

\* Vector3.lerp(goal, 0.05)
VLerp(v, goal) == [x |-> Lerp(v.x, goal.x), y |-> Lerp(v.y, goal.y), z |-> Lerp(v.z, goal.z)]

RECURSIVE SqrtBetween(_, _, _)
SqrtBetween(n, lo, hi) ==
    IF lo >= hi THEN lo
    ELSE LET mid == (lo + hi + 1) \div 2
         IN  IF mid * mid <= n THEN SqrtBetween(n, mid, hi) ELSE SqrtBetween(n, lo, mid - 1)

\* floor of the square root
ISqrt(n) == SqrtBetween(n, 0, 40000)

\* a.distanceTo(b)
Distance(a, b) ==
    ISqrt((a.x - b.x) * (a.x - b.x) + (a.y - b.y) * (a.y - b.y) + (a.z - b.z) * (a.z - b.z))

OverviewTarget == [x |-> 0, y |-> 0, z |-> 0]

\* one easing step of Scene toward `goal` at distance `targetDistance`:
\* the look-at target is moved first, the distance is measured from the
\* moved target, and the camera is put back on the same ray at the new distance
EaseToward(goal, targetDistance) ==
    LET currentTarget   == VLerp(ctlTarget, goal)
        currentDistance == Distance(camPos, currentTarget)
        newDistance     == Lerp(currentDistance, targetDistance)
        Along(c, t)     == IF currentDistance = 0 THEN t
                           ELSE t + RoundDiv((c - t) * newDistance, currentDistance)
    IN  [ target |-> currentTarget,
          pos    |-> [ x |-> Along(camPos.x, currentTarget.x),
                       y |-> Along(camPos.y, currentTarget.y),
                       z |-> Along(camPos.z, currentTarget.z) ] ]

\* the camera branch of Scene's frame callback (controlsRef is attached
\* for as long as the scene is mounted)
CameraStep ==
    IF cameraMode = "earth" /\ target # <<>> THEN EaseToward(target[1], FocusDistance)
    ELSE IF cameraMode = "overview" THEN EaseToward(OverviewTarget, OverviewDistance)
    ELSE [target |-> ctlTarget, pos |-> camPos]

-----------------------------------------------------------------------------
(* Scene: clock advance *)

\* the camera mode not consulted
FrameSpeedSlider == timeSpeed

\* const speed = cameraMode === 'earth' ? 0.1 : timeSpeed
FrameSpeed == IF cameraMode = "earth" THEN FocusSpeed ELSE timeSpeed

\* the frame delta left out of the product
AdvancePerFrame(t, d) == IF ~isPaused THEN t + FrameSpeed ELSE t

\* the pause flag not consulted
AdvanceAlways(t, d) == t + d * FrameSpeed

\* the product subtracted
AdvanceRewind(t, d) == IF ~isPaused THEN t - d * FrameSpeed ELSE t

\* if (!isPaused) timeRef.current += delta * speed
Advance(t, d) == IF ~isPaused THEN t + d * FrameSpeed ELSE t

-----------------------------------------------------------------------------
(* UIOverlay *)

\* const currentSpeed = cameraMode === 'earth' ? 0.1 : timeSpeed
currentSpeed == IF cameraMode = "earth" THEN FocusSpeed ELSE timeSpeed

\* currentSpeed.toFixed(1): the value in tenths, rounded to nearest
ToFixed1(v) == (v + 5) \div 10

\* the year taken from the orbital period instead of 365
LoopTextOrbital(t) == [ day  |-> t \div TimeUnit,
                        year |-> (t \div EARTH_YEAR) + 1 ]

\* Math.floor(timeRef.current) and Math.floor(timeRef.current / 365) + 1
LoopText(t) == [ day  |-> t \div TimeUnit,
                 year |-> (t \div (DaysPerYear * TimeUnit)) + 1 ]

\* the spans as rendered: DAY 0 | YEAR 1
RenderedText == [day |-> 0, year |-> 1]

-----------------------------------------------------------------------------
(* Initial state: the view is mounted, the overlay effect has run loop()  *)
(* once and no frame has been rendered yet.                               *)

Init ==
    /\ time = 0
    /\ isPaused = FALSE
    /\ timeSpeed = InitialSpeed
    /\ cameraMode = "overview"
    /\ target = <<>>
    /\ pose = DefaultPose
    /\ timeRead = -1
    /\ ctlTarget = [x |-> 0, y |-> 0, z |-> 0]
    /\ camPos = [x |-> 0, y |-> 4000, z |-> 6000]
    /\ readout = LoopText(0)
    /\ mounted = TRUE
    /\ requestId = 1
    /\ rafPending = {1}
    /\ nextRafId = 2
    /\ frames = 0
    /\ lastOp = "mount"

-----------------------------------------------------------------------------
(* Actions *)

\* One tick of the render loop.  The frame callbacks run in the order they
\* subscribed: EarthSystem (child) first, then Scene.  Scene's callback sees
\* the `target` of its last render, that is the one set in the previous tick.
RenderTick(d) ==
    /\ mounted
    /\ timeRead' = time
    /\ pose' = Kinematics(time)
    /\ target' = <<WorldPosition(pose'.earth)>>
    /\ time' = Advance(time, d)
    /\ ctlTarget' = CameraStep.target
    /\ camPos' = CameraStep.pos
    /\ frames' = frames + 1
    /\ lastOp' = "frame"
    /\ UNCHANGED <<isPaused, timeSpeed, cameraMode, readout, mounted,
                   requestId, rafPending, nextRafId>>

\* a tick of the render loop, within the number of ticks explored
Frame(d) == frames < MaxFrames /\ RenderTick(d)

\* onClick={() => setIsPaused(!isPaused)}
TogglePause ==
    /\ mounted
    /\ isPaused' = ~isPaused
    /\ lastOp' = "pause"
    /\ UNCHANGED <<time, timeSpeed, cameraMode, target, pose, timeRead, ctlTarget,
                   camPos, readout, mounted, requestId, rafPending, nextRafId, frames>>

\* the slider left enabled in Earth focus
SetTimeSpeedEnabled(v) ==
    /\ mounted
    /\ timeSpeed' = v
    /\ lastOp' = "speed"
    /\ UNCHANGED <<time, isPaused, cameraMode, target, pose, timeRead, ctlTarget,
                   camPos, readout, mounted, requestId, rafPending, nextRafId, frames>>

\* onChange={(e) => setTimeSpeed(parseFloat(e.target.value))}, disabled in Earth focus
SetTimeSpeed(v) ==
    /\ mounted
    /\ cameraMode # "earth"
    /\ timeSpeed' = v
    /\ lastOp' = "speed"
    /\ UNCHANGED <<time, isPaused, cameraMode, target, pose, timeRead, ctlTarget,
                   camPos, readout, mounted, requestId, rafPending, nextRafId, frames>>

\* onClick={() => setCameraMode('overview')} / setCameraMode('earth')
SetCameraMode(m) ==
    /\ mounted
    /\ cameraMode' = m
    /\ lastOp' = "mode"
    /\ UNCHANGED <<time, isPaused, timeSpeed, target, pose, timeRead, ctlTarget,
                   camPos, readout, mounted, requestId, rafPending, nextRafId, frames>>

\* only the whole days are cleared
ResetWholeDays(t) == t % TimeUnit

\* onClick={() => { timeRef.current = 0 }}
ResetTime(t) == 0

Reset ==
    /\ mounted
    /\ time' = ResetTime(time)
    /\ lastOp' = "reset"
    /\ UNCHANGED <<isPaused, timeSpeed, cameraMode, target, pose, timeRead, ctlTarget,
                   camPos, readout, mounted, requestId, rafPending, nextRafId, frames>>

\* the loop truncating the clock to the day it displays
OverlayLoopTruncating(id) ==
    /\ id \in rafPending
    /\ nextRafId <= MaxRaf
    /\ readout' = IF mounted THEN LoopText(time) ELSE readout
    /\ time' = (time \div TimeUnit) * TimeUnit
    /\ requestId' = nextRafId
    /\ rafPending' = (rafPending \ {id}) \cup {nextRafId}
    /\ nextRafId' = nextRafId + 1
    /\ lastOp' = "loop"
    /\ UNCHANGED <<isPaused, timeSpeed, cameraMode, target, pose, timeRead,
                   ctlTarget, camPos, mounted, frames>>

\* the browser runs the pending animation-frame callback `loop`
OverlayLoop(id) ==
    /\ id \in rafPending
    /\ nextRafId <= MaxRaf
    /\ readout' = IF mounted THEN LoopText(time) ELSE readout
    /\ requestId' = nextRafId
    /\ rafPending' = (rafPending \ {id}) \cup {nextRafId}
    /\ nextRafId' = nextRafId + 1
    /\ lastOp' = "loop"
    /\ UNCHANGED <<time, isPaused, timeSpeed, cameraMode, target, pose, timeRead,
                   ctlTarget, camPos, mounted, frames>>

\* the id of the first request is cancelled, not the latest
CancelledFirst(pending, id) == pending \ {1}

\* return () => cancelAnimationFrame(requestId)
Cancelled(pending, id) == pending \ {id}

\* the view is unmounted: the refs are detached and the effect's cleanup runs
Teardown ==
    /\ mounted
    /\ mounted' = FALSE
    /\ rafPending' = Cancelled(rafPending, requestId)
    /\ lastOp' = "unmount"
    /\ UNCHANGED <<time, isPaused, timeSpeed, cameraMode, target, pose, timeRead,
                   ctlTarget, camPos, readout, requestId, nextRafId, frames>>

Next ==
    \/ \E d \in Deltas : Frame(d)
    \/ TogglePause
    \/ \E v \in SliderSamples : SetTimeSpeed(v)
    \/ \E m \in {"overview", "earth"} : SetCameraMode(m)
    \/ Reset
    \/ \E id \in rafPending : OverlayLoop(id)
    \/ Teardown

Spec == Init /\ [][Next]_vars

-----------------------------------------------------------------------------
(* The kinematics on their own: the clock starts at any of a set of values *)
(* (a frame that read it has just run) and is then advanced by frames      *)
(* whose delta times the speed in force is one orbital or spin period.     *)

OrbitTimes == { k * OrbitStride : k \in 0..MaxOrbitSamples }

PeriodDeltas == { SATELLITE_ORBIT \div InitialSpeed, EARTH_DAY \div InitialSpeed,
                  MOON_ORBIT \div InitialSpeed, EARTH_YEAR \div FocusSpeed }

InitOrbit ==
    /\ time \in OrbitTimes
    /\ isPaused = FALSE
    /\ timeSpeed = InitialSpeed
    /\ cameraMode = "overview"
    /\ timeRead = time
    /\ pose = Kinematics(time)
    /\ target = <<WorldPosition(pose.earth)>>
    /\ ctlTarget = [x |-> 0, y |-> 0, z |-> 0]
    /\ camPos = [x |-> 0, y |-> 4000, z |-> 6000]
    /\ readout = LoopText(time)
    /\ mounted = TRUE
    /\ requestId = 1
    /\ rafPending = {1}
    /\ nextRafId = 2
    /\ frames = 0
    /\ lastOp = "frame"

NextOrbit ==
    \/ \E d \in PeriodDeltas : Frame(d)
    \/ \E m \in {"overview", "earth"} : SetCameraMode(m)

SpecOrbit == InitOrbit /\ [][NextOrbit]_vars

-----------------------------------------------------------------------------
(* The camera on its own: more ticks of the render loop, all with the      *)
(* short delta, between which the user switches camera mode or pauses.     *)

CameraFrame(d) == frames < MaxCameraFrames /\ RenderTick(d)

NextCamera ==
    \/ CameraFrame(ShortDelta)
    \/ \E m \in {"overview", "earth"} : SetCameraMode(m)
    \/ TogglePause

SpecCamera == Init /\ [][NextCamera]_vars

-----------------------------------------------------------------------------
(* Properties *)

\* a step of the render loop / of the overlay's readout loop
FrameStep == frames' = frames + 1
LoopStep == nextRafId' = nextRafId + 1

\* the pose every body has at t = 0: (radius, 0, 0) in its orbit plane
AtRadius(r) == [ x |-> [sign |-> 1, amp |-> <<r, "1">>, c |-> <<0, 1>>], y |-> Zero, z |-> Zero ]

PoseAtZero ==
    [ earth |-> AtRadius(250), earthSpin |-> <<0, 1>>, moon |-> AtRadius(25),
      sat |-> AtRadius(13), satFacing |-> <<1, 4>> ]

\* C1: a frame tick with delta d moves the clock from c to c + s*d when not
\* paused, s being 0.1 in Earth focus and the slider value in overview, and
\* leaves it at c when paused, whatever d is.
C1_ClockAdvanceExact ==
    [][\A d \in Deltas :
          Frame(d) =>
             time' = IF isPaused THEN time
                     ELSE time + d * (IF cameraMode = "earth" THEN FocusSpeed ELSE timeSpeed)]_vars

\* two consecutive unpaused frames at the initial speed and the short delta
C1_Witness ==
    /\ lastOp = "frame" /\ frames = 2 /\ ~isPaused /\ cameraMode = "overview"
    /\ timeSpeed = InitialSpeed
    /\ time = 2 * ShortDelta * InitialSpeed

\* C2: RESET sets the clock to 0 and changes nothing else, a second RESET
\* gives the same clock as the first, and a kinematics update that reads
\* clock 0 writes the t = 0 pose (each body at (radius, 0, 0)) whatever
\* happened before.
C2_ResetIdempotent ==
    /\ [](/\ ResetTime(time) = 0
          /\ ResetTime(ResetTime(time)) = ResetTime(time)
          /\ (timeRead = 0 => pose = PoseAtZero))
    /\ [][lastOp' = "reset" =>
            /\ time' = 0
            /\ UNCHANGED <<isPaused, timeSpeed, cameraMode, target, pose, timeRead,
                           ctlTarget, camPos, readout, mounted, requestId,
                           rafPending, nextRafId, frames>>]_vars

\* the clock had passed day 1, was reset, and the next frame read 0
C2_Witness ==
    /\ lastOp = "frame" /\ time = 0 /\ timeRead = 0
    /\ readout.day > 0
    /\ pose = PoseAtZero

\* C3: the transforms in the scene are those computed from the clock value
\* the last kinematics update read, and from nothing else; before the first
\* update they are the nodes' defaults.
C3_Memoryless ==
    /\ (timeRead < 0 => pose = DefaultPose)
    /\ (timeRead >= 0 => pose = BodyTransforms(timeRead))

\* a second update read clock 0 again, in Earth focus, after the readout had
\* shown a later year
C3_Witness ==
    /\ lastOp = "frame" /\ frames >= 2 /\ timeRead = 0
    /\ cameraMode = "earth"
    /\ readout.year >= 2
    /\ pose = BodyTransforms(0)

\* C4: an unpaused frame advances the clock by 0.1 days per second in Earth
\* focus whatever the slider holds, and by the slider value in overview; the
\* speed the overlay prints is the speed the clock uses.
C4_SpeedCoupledToMode ==
    /\ [][\A d \in Deltas :
            (Frame(d) /\ ~isPaused) =>
               /\ (cameraMode = "earth" => time' - time = d * 10)
               /\ (cameraMode = "overview" => time' - time = d * timeSpeed)]_vars
    /\ [](ToFixed1(currentSpeed) * 10 = FrameSpeed)

\* an unpaused frame in Earth focus with the slider at its maximum
C4_Witness ==
    /\ lastOp = "frame" /\ frames = 1 /\ ~isPaused
    /\ cameraMode = "earth" /\ timeSpeed = SliderMax
    /\ time \in { d * FocusSpeed : d \in Deltas }

\* C5: while paused a frame tick still runs the kinematics update and the
\* camera step and the readout loop still runs, but none of them moves the
\* clock; resuming leaves the clock at the value it had.
C5_PauseGuardsOnlyClock ==
    /\ [][(isPaused /\ FrameStep) =>
            /\ time' = time
            /\ timeRead' = time
            /\ pose' = BodyTransforms(time)
            /\ ctlTarget' = CameraStep.target
            /\ camPos' = CameraStep.pos]_vars
    /\ [][(isPaused /\ LoopStep) =>
            /\ time' = time
            /\ (mounted => readout' = LoopText(time))]_vars
    /\ [][(isPaused /\ ~isPaused') => time' = time]_vars
    /\ [](isPaused /\ mounted => rafPending # {})

\* a frame ran while paused: the clock stayed at the value the update read,
\* and the camera moved
C5_Witness ==
    /\ lastOp = "frame" /\ isPaused /\ frames >= 2
    /\ time > 0 /\ timeRead = time
    /\ camPos # [x |-> 0, y |-> 4000, z |-> 6000]

\* C6 as stated: the clock and the body transforms change only in a step of
\* the render loop.
C6_OnlyFrameWrites ==
    [][(time' # time \/ pose' # pose) => FrameStep]_vars

\* C6 amended: the clock changes only in a step of the render loop or by
\* the RESET click handler, which sets it to 0; the body transforms change
\* only in a step of the render loop.
C6_OnlyFrameOrResetWrites ==
    [][/\ (time' # time => (FrameStep \/ (lastOp' = "reset" /\ time' = 0)))
       /\ (pose' # pose => FrameStep)]_vars

\* RESET has just moved the clock back from the value the last update read
C6_Witness ==
    /\ lastOp = "reset" /\ time = 0 /\ timeRead > 0 /\ pose # PoseAtZero

C8_SpeedInRange ==
    /\ 10 <= FrameSpeed /\ FrameSpeed <= 5000
    /\ 10 <= timeSpeed /\ timeSpeed <= 5000
    /\ timeSpeed \in SliderValues
    /\ \A v \in SliderValues \cup {InitialSpeed, FocusSpeed} : 10 <= v /\ v <= 5000

\* an unpaused overview frame ran at the slider's maximum
C8_Witness ==
    /\ lastOp = "frame" /\ ~isPaused /\ cameraMode = "overview"
    /\ timeSpeed = SliderMax /\ time > 0

\* C9: when the clock a kinematics update reads is one period of a body
\* later than the clock the previous update read, the body's angle is the
\* same modulo a full turn and its position is the same; the Moon at
\* t = 27.3 is at (radius, 0, 0).
C9_Periodic ==
    [][(FrameStep /\ timeRead >= 0) =>
         /\ (time = timeRead + EARTH_YEAR =>
               /\ Frac(Angle(time, EARTH_YEAR)) = Frac(Angle(timeRead, EARTH_YEAR))
               /\ pose'.earth = pose.earth)
         /\ (time = timeRead + MOON_ORBIT =>
               /\ Frac(Angle(time, MOON_ORBIT)) = Frac(Angle(timeRead, MOON_ORBIT))
               /\ pose'.moon = pose.moon)
         /\ (time = timeRead + SATELLITE_ORBIT =>
               /\ Frac(Angle(time, SATELLITE_ORBIT)) = Frac(Angle(timeRead, SATELLITE_ORBIT))
               /\ pose'.sat = pose.sat)
         /\ (time = MOON_ORBIT => pose'.moon = AtRadius(25))]_vars

\* the update read t = 27.3 one Moon period after it had read t = 0
C9_Witness ==
    /\ lastOp = "frame" /\ frames = 2 /\ timeRead = MOON_ORBIT
    /\ pose.moon = AtRadius(25)
    /\ pose.earth # AtRadius(250)

\* C10: once the view is torn down no readout callback is pending and the
\* loop does not run again; while it is mounted at most one is pending.
C10_TeardownCancels ==
    /\ [](~mounted => rafPending = {})
    /\ [](Cardinality(rafPending) <= 1)
    /\ [][~mounted => (nextRafId' = nextRafId /\ requestId' = requestId /\ readout' = readout)]_vars

\* torn down after the loop had rescheduled itself at least once
C10_Witness ==
    /\ lastOp = "unmount" /\ ~mounted /\ requestId > 1 /\ rafPending = {}

\* new is old moved toward goal by 0.05 of (goal - old), to the nearest
\* hundredth, never past the goal
EasedBy(old, new, goal) ==
    /\ 100 * (new - old) - 5 * (goal - old) <= 50
    /\ 5 * (goal - old) - 100 * (new - old) <= 50
    /\ (goal - old) * (goal - new) >= 0
    /\ Abs(goal - new) <= Abs(goal - old)

VEasedBy(old, new, goal) ==
    /\ EasedBy(old.x, new.x, goal.x)
    /\ EasedBy(old.y, new.y, goal.y)
    /\ EasedBy(old.z, new.z, goal.z)

\* the camera's distance from the look-at target new, from which it was at
\* distance `before`, is now before + 0.05 * (goal - before), within the two
\* hundredths that placing the camera on the grid can cost
DistanceEasedBy(before, after, goal) ==
    /\ 100 * (after - before) - 5 * (goal - before) <= 250
    /\ 5 * (goal - before) - 100 * (after - before) <= 250
    /\ (goal >= before => after <= goal + 2 /\ after >= before - 2)
    /\ (goal <= before => after >= goal - 2 /\ after <= before + 2)

\* C11 as stated: in every frame tick, in either mode, the look-at target
\* moves by 0.05 of its offset from the mode's goal (Earth's current world
\* position in focus, the origin in overview) and the camera distance by
\* 0.05 of its gap to the mode's distance (15 in focus, 60 in overview).
C11_EasesEveryFrame ==
    [][FrameStep =>
         LET goal == IF cameraMode = "earth" THEN WorldPosition(pose'.earth)
                     ELSE [x |-> 0, y |-> 0, z |-> 0]
             dist == IF cameraMode = "earth" THEN 1500 ELSE 6000
         IN  /\ VEasedBy(ctlTarget, ctlTarget', goal)
             /\ DistanceEasedBy(Distance(camPos, ctlTarget'),
                                Distance(camPos', ctlTarget'), dist)]_vars

\* C11 amended: the step is taken in every frame tick in overview, and in
\* Earth focus in every frame tick for which Scene holds a target, which is
\* the Earth position published by an earlier tick; in Earth focus before
\* that (the first tick) the camera is left alone.  The distance is the one
\* from the look-at target after it has moved.
C11_EasesTowardHeldTarget ==
    [][FrameStep =>
         /\ (cameraMode = "overview" =>
               /\ VEasedBy(ctlTarget, ctlTarget', [x |-> 0, y |-> 0, z |-> 0])
               /\ DistanceEasedBy(Distance(camPos, ctlTarget'),
                                  Distance(camPos', ctlTarget'), 6000))
         /\ (cameraMode = "earth" /\ target # <<>> =>
               /\ target[1] = WorldPosition(pose.earth)
               /\ VEasedBy(ctlTarget, ctlTarget', target[1])
               /\ DistanceEasedBy(Distance(camPos, ctlTarget'),
                                  Distance(camPos', ctlTarget'), 1500))
         /\ (cameraMode = "earth" /\ target = <<>> =>
               /\ frames = 0
               /\ ctlTarget' = ctlTarget /\ camPos' = camPos)]_vars

\* after several ticks, the last ones in Earth focus, the look-at target has
\* left the origin toward the Earth and the camera has come closer than the
\* overview distance
C11_Witness ==
    /\ lastOp = "frame" /\ frames >= 4 /\ cameraMode = "earth"
    /\ ctlTarget.x > 200
    /\ Distance(camPos, ctlTarget) < 6000

\* C12: the clock is never negative, and it goes down only in a step of the
\* RESET handler; every other step leaves it where it was or moves it up.
C12_ClockMonotoneButReset ==
    /\ [](time >= 0)
    /\ [][time' < time => (lastOp' = "reset" /\ time' = 0)]_vars
    /\ [][FrameStep => time' >= time]_vars

\* the clock was shown beyond its present value, was reset, and has been
\* advanced again by a frame
C12_Witness ==
    /\ lastOp = "frame" /\ ~isPaused /\ timeRead = 0
    /\ time > 0 /\ time < readout.day * TimeUnit

\* C13: RESET leaves the pause flag, the slider speed and the camera mode
\* alone; pause, slider and mode clicks leave the clock alone and change
\* only their own piece of state; the slider speed cannot change while the
\* mode is Earth focus, so it is the same after going to Earth focus and back.
C13_ControlsIndependent ==
    /\ [][lastOp' = "reset" => UNCHANGED <<isPaused, timeSpeed, cameraMode>>]_vars
    /\ [][lastOp' = "pause" => UNCHANGED <<time, timeSpeed, cameraMode>>]_vars
    /\ [][lastOp' = "speed" => UNCHANGED <<time, isPaused, cameraMode>>]_vars
    /\ [][lastOp' = "mode" => UNCHANGED <<time, isPaused, timeSpeed>>]_vars
    /\ [][(cameraMode = "earth" \/ cameraMode' = "earth") => timeSpeed' = timeSpeed]_vars

\* back in overview after frames in Earth focus, the slider still at the
\* maximum it was moved to
C13_Witness ==
    /\ lastOp = "mode" /\ cameraMode = "overview"
    /\ timeSpeed = SliderMax
    /\ ctlTarget.x > 0

====
